---- MODULE Spec2Model ----
(***************************************************************************)
(* State-machine model of the GraphVisualization component                 *)
(* (src/frontend/components/graph/GraphVisualization.tsx) and of three     *)
(* other components of the page: AuthProvider, the toast, and the GitHub   *)
(* integration of the dashboard.                                           *)
(*                                                                         *)
(* The component owns one React state cell (selectedNode), one ref         *)
(* (cyRef) and, through the effect at lines 50-248, a Cytoscape instance   *)
(* built from the props nodes/edges.  Every handler of the component is    *)
(* one action.  A prop change (new nodes/edges arrays) is one action that  *)
(* runs the previous effect's cleanup and then the effect body.            *)
(*                                                                         *)
(* Zoom factors are held in tenths (10 is the factor 1.0); a product is     *)
(* rounded to the nearest tenth.                                           *)
(*                                                                         *)
(* Spec interleaves the events of the host and of the user.  SpecLayout    *)
(* adds the frames of the layout animations that the effect and the reset  *)
(* button start, which move the nodes and nothing else.  SpecAuth,          *)
(* SpecToast and SpecDash are the specifications of the other components:  *)
(* an asynchronous function is one action up to each await and one action  *)
(* for each way the awaited request settles.                               *)
(***************************************************************************)
EXTENDS Integers, Sequences, FiniteSets, TLC

VARIABLES
    nodes,          \* prop nodes: set of node data maps
    edges,          \* prop edges: set of edge data maps
    interactive,    \* prop interactive
    onNodeClick,    \* prop onNodeClick: "none" (undefined), "ok", "throws"
    cyRef,          \* cyRef.current: "null" or "cy"
    cy,             \* the instance cyRef.current points to (the last one created)
    selectedNode,   \* React state: <<>> (null) or <<data>>
    crashed,        \* the effect threw while rendering: the component is gone
    mounted,        \* the component is mounted
    retired,        \* `destroyed` of every instance an earlier effect built
    cursor,         \* document.body.style.cursor
    last,           \* what the most recent event did (observation only)
    \* AuthProvider
    user,           \* React state: <<>> (null) or <<account>>
    loading,        \* React state
    crux_token,     \* localStorage item crux_token: "none" when absent
    pending,        \* the suspended call of each async function
    loggedOut,      \* a logout ran and no later login or signup has returned (observation only)
    authLast,       \* what the most recent step did (observation only)
    \* ToastProvider, Toast
    toast,          \* React state: <<>> (null) or <<id>>
    isExiting,      \* React state of the Toast on screen
    timers,         \* ids of the toasts whose expiry timer is armed
    closing,        \* the scheduled onClose callbacks
    shown,          \* number of toasts shown so far
    toastLast,      \* what the most recent step did (observation only)
    \* dashboard
    syncing,        \* React state
    github_connected, \* user.github_connected as the page has it
    linked,         \* the backend has a GitHub link for the account
    tab,            \* the authorization tab: "none", "open", "closed"
    running         \* the await each async handler is suspended at

graphVars == <<nodes, edges, interactive, onNodeClick, cyRef, cy, selectedNode,
               crashed, mounted, retired, cursor, last>>

authVars == <<user, loading, crux_token, pending, loggedOut, authLast>>

toastVars == <<toast, isExiting, timers, closing, shown, toastLast>>

dashVars == <<syncing, github_connected, linked, tab, running>>

vars == <<graphVars, authVars, toastVars, dashVars>>

----------------------------------------------------------------------------
(* Input data *)

\* a node whose data map has no `type` entry
Undefined == "<undefined>"

NodeData(id, label, type) == [id |-> id, label |-> label, type |-> type]

EdgeData(id, s, t) == [id |-> id, source |-> s, target |-> t, relationship |-> "rel"]

nA == NodeData("A", "alice", "User")
nB == NodeData("B", "crux", "Project")
nC == NodeData("C", "tla", "Skill")
\* a node that lacks its type
nU == NodeData("U", "untyped", Undefined)
\* types written in another letter case
nD == NodeData("D", "acme", "ORGANIZATION")
nE == NodeData("E", "mit", "education")

eAB == EdgeData("A->B", "A", "B")
eBC == EdgeData("B->C", "B", "C")

NodePool == {nA, nB, nC, nU, nD, nE}
EdgePool == {eAB, eBC}

Graph(ns, es) == [nodes |-> ns, edges |-> es]

\* The inputs the component is given: no data, the chain A->B->C, the same
\* with C isolated, a lone node, an edge B->C whose target is no node of the
\* input, a node without a type, and two unconnected nodes whose types are
\* written in upper and in lower case.
Inputs ==
    { Graph({}, {}),
      Graph({nA, nB, nC}, {eAB, eBC}),
      Graph({nA, nB, nC}, {eAB}),
      Graph({nC}, {}),
      Graph({nA, nB}, {eAB, eBC}),
      Graph({nA, nU}, {eAB}),
      Graph({nD, nE}, {}) }

----------------------------------------------------------------------------
(* Program constants (zoom in tenths) *)

MinZoom == 3
MaxZoom == 30
InitialZoom == 10
FitPadding == 50
ContainerSize == 600

\* extents of the laid-out graph's bounding box that fit() may meet
BBoxes == {100, 500, 4000}

\* z * num / den, to the nearest tenth
Scale(z, num, den) == (2 * z * num + den) \div (2 * den)

Null == <<>>
Some(d) == <<d>>

\* layout runs of one instance that are told apart
MaxRuns == 2

\* A layout run is named by its age: 0 is the run started last, 1 the one
\* before it, and so on.  Older, the last age told apart, stands for the run
\* of that age and for every run before it, and for the positions the nodes
\* had before any run moved them.
Older == MaxRuns - 1

\* the age of a run once one more run has been started
Aged(a) == IF a < Older THEN a + 1 ELSE Older

\* An instance: its elements, the two selection classes, the zoom factor,
\* the layout runs still animating (runs) and the run whose position update
\* the nodes currently show (positions).
NoInstance ==
    [nodes |-> {}, edges |-> {}, highlighted |-> {}, faded |-> {},
     zoom |-> InitialZoom, destroyed |-> FALSE, handlers |-> FALSE,
     runs |-> {}, positions |-> Older]

\* RenderState of the spec: the selection and the two class sets
RenderState == [selectedNode |-> selectedNode,
                highlighted |-> cy.highlighted, faded |-> cy.faded]

Idle == [selectedNode |-> Null, highlighted |-> {}, faded |-> {}]

\* the id of the selected node, "" when there is none
SelectedId == IF selectedNode = Null THEN "" ELSE selectedNode[1].id

\* The options of the cose-bilkent layout that tune a run, with the value
\* the layout takes for an option its caller leaves out.  Fractions are in
\* hundredths (edgeElasticity 0.45, nestingFactor 0.1, gravity 0.25).
LayoutDefaults ==
    [animationDuration |-> 500, nodeRepulsion |-> 4500, idealEdgeLength |-> 50,
     edgeElasticity |-> 45, nestingFactor |-> 10, gravity |-> 25,
     numIter |-> 2500, tile |-> TRUE, randomize |-> TRUE]

\* the layout options of cytoscape({...}), lines 183-195
InitialLayout ==
    [animationDuration |-> 1000, nodeRepulsion |-> 8000, idealEdgeLength |-> 100,
     edgeElasticity |-> 45, nestingFactor |-> 10, gravity |-> 25,
     numIter |-> 2500, tile |-> TRUE, randomize |-> TRUE]

\* the layout options of handleReset, lines 273-278
ResetLayout == [animationDuration |-> 1000, randomize |-> TRUE]

\* the options a run works with: the caller's over the layout's defaults
WithDefaults(o) ==
    [k \in DOMAIN LayoutDefaults |-> IF k \in DOMAIN o THEN o[k] ELSE LayoutDefaults[k]]

\* An event record: the handler that ran, its argument, the selection it
\* started from, the onNodeClick calls it made, the layout runs it started
\* and the options each of them works with, whether it reached past its
\* guard, whether it threw, whether it repeats the event before it, the
\* bounding box it fitted (0: none) and whether it re-centred the viewport.
Event(op, arg) ==
    [op |-> op, arg |-> arg, from |-> SelectedId, emitted |-> <<>>,
     layouts |-> 0, options |-> {}, acted |-> FALSE, threw |-> FALSE,
     again |-> (last.op = op /\ last.arg = arg /\ last.acted),
     bb |-> 0, centers |-> FALSE]

----------------------------------------------------------------------------
(* The adapter: lines 56-64 and Cytoscape's element creation *)

ToLowerCase(s) ==
    CASE s = "User" -> "user"
      [] s = "Project" -> "project"
      [] s = "Skill" -> "skill"
      [] s = "ORGANIZATION" -> "organization"
      [] s = "education" -> "education"
      [] OTHER -> s

\* n.data.type.toLowerCase() throws a TypeError when type is undefined
MapThrows(ns) == \E n \in ns : n.type = Undefined

NodeElements(ns) == { [data |-> n, classes |-> ToLowerCase(n.type)] : n \in ns }

\* Cytoscape creates no edge whose source or target is not a node of the graph
EdgeElements(ns, es) ==
    { e \in es : /\ \E n \in ns : n.id = e.source
                 /\ \E n \in ns : n.id = e.target }

NodeIds(c) == { el.data.id : el \in c.nodes }
EdgeIds(c) == { e.id : e \in c.edges }
AllIds(c) == NodeIds(c) \cup EdgeIds(c)

DataOf(c, id) == (CHOOSE el \in c.nodes : el.data.id = id).data

----------------------------------------------------------------------------
(* Selection: lines 205-230 *)

ConnectedEdges(c, n) == { e \in c.edges : e.source = n \/ e.target = n }

ConnectedNodes(es) == { e.source : e \in es } \cup { e.target : e \in es }

\* a removeClass that forgets the class 'faded'
RemoveHighlightedOnly(c) == [c EXCEPT !.highlighted = {}]

\* elements().removeClass('highlighted faded'), lines 215, 227, 272
RemoveClasses(c) == [c EXCEPT !.highlighted = {}, !.faded = {}]

Highlight(c, n) ==
    LET connectedEdges == ConnectedEdges(c, n)
        connectedNodes == ConnectedNodes(connectedEdges)
        edgeIds == { e.id : e \in connectedEdges }
    IN  [c EXCEPT !.faded = AllIds(c) \ ({n} \cup connectedNodes \cup edgeIds),
                  !.highlighted = edgeIds \cup connectedNodes]

----------------------------------------------------------------------------
(* Viewport: lines 196-198, 250-268 *)

\* a clamp that forgets maxZoom
ClampLowOnly(z) == IF z < MinZoom THEN MinZoom ELSE z

\* Cytoscape keeps every zoom level it is given within [minZoom, maxZoom]
Clamp(z) == IF z < MinZoom THEN MinZoom ELSE IF z > MaxZoom THEN MaxZoom ELSE z

SetZoom(c, z) == [c EXCEPT !.zoom = Clamp(z)]

\* a fit that forgets the padding
FitZoomNoPadding(bb) == Clamp(Scale(InitialZoom, ContainerSize, bb))

\* fit(undefined, 50), line 266: the largest zoom at which the bounding box
\* fills the container less the padding on both sides, held to the range
FitZoom(bb) == Clamp(Scale(InitialZoom, ContainerSize - 2 * FitPadding, bb))

----------------------------------------------------------------------------
(* The graph component before its first render, for the specifications of
   the other components of the page *)

GraphAtRest ==
    /\ nodes = {}
    /\ edges = {}
    /\ interactive = TRUE
    /\ onNodeClick = "none"
    /\ cyRef = "null"
    /\ cy = NoInstance
    /\ selectedNode = Null
    /\ crashed = FALSE
    /\ cursor = "default"
    /\ mounted = TRUE
    /\ retired = {}
    /\ last = [op |-> "mount", arg |-> "", from |-> "", emitted |-> <<>>,
               layouts |-> 0, options |-> {}, acted |-> FALSE, threw |-> FALSE,
               again |-> FALSE, bb |-> 0, centers |-> FALSE]

----------------------------------------------------------------------------
(* AuthProvider (src/frontend/contexts/AuthContext.tsx) *)

\* the access tokens the backend issues and accepts, one per account
Tokens == {"t1", "t2"}

\* what localStorage can hold under crux_token when the page loads: nothing,
\* a token the backend accepts, or one it no longer accepts
StoredAtLoad == {"none", "t1", "expired"}

\* the account a token belongs to, as /api/auth/me returns it
UserOf(t) == IF t = "t1" THEN "u1" ELSE "u2"

\* the asynchronous functions of the provider; each has at most one call
\* in flight
Calls == {"checkAuth", "login", "signup", "refreshUser"}

\* A call: where it is suspended (pc), the token its getMe request carries
\* (sent), and for observation, of a login or signup, the user and token at
\* the time it was made (before) and whether nothing else has written user
\* or token since (quiet), and of every call whether a logout came after its
\* getMe request was sent (early).
NoCall ==
    [pc |-> "idle", sent |-> "none", before |-> [user |-> Null, token |-> "none"],
     quiet |-> TRUE, early |-> FALSE]

\* the request interceptor, api.ts lines 18-24: a request carries the token
\* that is in storage when the request is made
Authorization == crux_token

\* the call of one of the functions, suspended at await pc
Suspended(pc, sent) == [NoCall EXCEPT !.pc = pc, !.sent = sent]

\* the answers of /api/auth/me to a request carrying token t: a token the
\* backend accepts may be answered or fail on the way, any other is rejected
GetMeAnswers(t) == IF t \in Tokens THEN {TRUE, FALSE} ELSE {FALSE}

\* the calls in flight other than k, once k (or a logout) has written user
\* or token
Disturbed(k, byLogout) ==
    [j \in Calls |->
        IF j = k \/ pending[j].pc \in {"idle", "mount"} THEN pending[j]
        ELSE [pending[j] EXCEPT
                 !.quiet = @ /\ j \notin {"login", "signup"},
                 !.before = NoCall.before,
                 !.early = @ \/ (byLogout /\ pending[j].pc = "getMe")]]

\* what the most recent step of the provider did; of a call that ended with
\* a rejection, also what the call observed
AuthEvent(op, outcome, call) ==
    LET seen == IF outcome = "rejected" THEN call ELSE NoCall
    IN  [op |-> op, outcome |-> outcome, before |-> seen.before, quiet |-> seen.quiet]

\* the provider as useState leaves it (lines 26-27), before the effect of
\* lines 29-31 has run, with stored token t
AuthStart(t) ==
    /\ user = Null
    /\ loading = TRUE
    /\ crux_token = t
    /\ pending = [j \in Calls |->
                     IF j = "checkAuth" THEN [NoCall EXCEPT !.pc = "mount"] ELSE NoCall]
    /\ loggedOut = FALSE
    /\ authLast = AuthEvent("mount", "", NoCall)

AuthAtRest == AuthStart("none")

\* checkAuth up to its await, lines 33-41; called once, by the effect of
\* lines 29-31
checkAuth ==
    /\ pending["checkAuth"].pc = "mount"
    /\ UNCHANGED <<user, crux_token, loggedOut>>
    /\ UNCHANGED <<graphVars, toastVars, dashVars>>
    /\ IF crux_token = "none"
       THEN /\ loading' = FALSE
            /\ pending' = [pending EXCEPT !["checkAuth"] = NoCall]
            /\ authLast' = AuthEvent("checkAuth", "returned", NoCall)
       ELSE /\ UNCHANGED loading
            /\ pending' = [pending EXCEPT !["checkAuth"] = Suspended("getMe", Authorization)]
            /\ authLast' = AuthEvent("checkAuth", "awaits", NoCall)

\* checkAuth from its await on, lines 41-47
checkAuthSettled(ok) ==
    LET call == pending["checkAuth"]
    IN  /\ call.pc = "getMe"
        /\ ok \in GetMeAnswers(call.sent)
        /\ UNCHANGED <<graphVars, toastVars, dashVars>>
        /\ UNCHANGED loggedOut
        /\ loading' = FALSE
        /\ pending' = [Disturbed("checkAuth", FALSE) EXCEPT !["checkAuth"] = NoCall]
        /\ IF ok
           THEN /\ user' = Some(UserOf(call.sent))
                /\ UNCHANGED crux_token
                /\ authLast' = AuthEvent("checkAuth", "returned", call)
           ELSE /\ crux_token' = "none"
                /\ UNCHANGED user
                /\ authLast' = AuthEvent("checkAuth", "caught", call)

\* login (line 51) and signup (line 62) up to their first await
credentials(k) ==
    /\ pending[k].pc = "idle"
    /\ UNCHANGED <<user, loading, crux_token, loggedOut>>
    /\ UNCHANGED <<graphVars, toastVars, dashVars>>
    /\ pending' = [pending EXCEPT ![k] =
                       [Suspended("credentials", "none") EXCEPT
                           !.before = [user |-> user, token |-> crux_token]]]
    /\ authLast' = AuthEvent(k, "awaits", NoCall)

login == credentials("login")

signup == credentials("signup")

\* login and signup from the first await to the second, lines 51-57 and
\* 62-68: the backend rejects the credentials, or answers with the access
\* token r of the account
credentialsSettled(k, r) ==
    LET call == pending[k]
    IN  /\ call.pc = "credentials"
        /\ UNCHANGED <<user, loading, loggedOut>>
        /\ UNCHANGED <<graphVars, toastVars, dashVars>>
        /\ IF r = "rejected"
           THEN /\ UNCHANGED crux_token
                /\ pending' = [pending EXCEPT ![k] = NoCall]
                /\ authLast' = AuthEvent(k, "rejected", call)
           ELSE /\ crux_token' = r
                /\ pending' = [Disturbed(k, FALSE) EXCEPT
                                  ![k] = [call EXCEPT !.pc = "getMe", !.sent = r]]
                /\ authLast' = AuthEvent(k, "awaits", call)

\* login and signup from the second await on, lines 57-58 and 68-69
getMeSettled(k, ok) ==
    LET call == pending[k]
    IN  /\ k \in {"login", "signup"}
        /\ call.pc = "getMe"
        /\ ok \in GetMeAnswers(call.sent)
        /\ UNCHANGED <<loading, crux_token>>
        /\ UNCHANGED <<graphVars, toastVars, dashVars>>
        /\ IF ok
           THEN /\ user' = Some(UserOf(call.sent))
                /\ loggedOut' = (loggedOut /\ call.early)
                /\ pending' = [Disturbed(k, FALSE) EXCEPT ![k] = NoCall]
                /\ authLast' = AuthEvent(k, "returned", call)
           ELSE /\ UNCHANGED <<user, loggedOut>>
                /\ pending' = [pending EXCEPT ![k] = NoCall]
                /\ authLast' = AuthEvent(k, "rejected", call)

\* lines 72-75
logout ==
    /\ crux_token' = "none"
    /\ user' = Null
    /\ loggedOut' = TRUE
    /\ pending' = Disturbed("logout", TRUE)
    /\ authLast' = AuthEvent("logout", "returned", NoCall)
    /\ UNCHANGED loading
    /\ UNCHANGED <<graphVars, toastVars, dashVars>>

\* refreshUser up to its await, lines 77-79
refreshUser ==
    /\ pending["refreshUser"].pc = "idle"
    /\ UNCHANGED <<user, loading, crux_token, loggedOut>>
    /\ UNCHANGED <<graphVars, toastVars, dashVars>>
    /\ pending' = [pending EXCEPT !["refreshUser"] = Suspended("getMe", Authorization)]
    /\ authLast' = AuthEvent("refreshUser", "awaits", NoCall)

\* refreshUser from its await on, lines 79-83
refreshUserSettled(ok) ==
    LET call == pending["refreshUser"]
    IN  /\ call.pc = "getMe"
        /\ ok \in GetMeAnswers(call.sent)
        /\ UNCHANGED <<loading, crux_token, loggedOut>>
        /\ UNCHANGED <<graphVars, toastVars, dashVars>>
        /\ IF ok
           THEN /\ user' = Some(UserOf(call.sent))
                /\ pending' = [Disturbed("refreshUser", FALSE) EXCEPT !["refreshUser"] = NoCall]
                /\ authLast' = AuthEvent("refreshUser", "returned", call)
           ELSE /\ UNCHANGED user
                /\ pending' = [pending EXCEPT !["refreshUser"] = NoCall]
                /\ authLast' = AuthEvent("refreshUser", "caught", call)

----------------------------------------------------------------------------
(* ToastProvider and Toast (src/frontend/hooks/useToast.tsx,
   src/frontend/components/ui/toast.tsx) *)

\* toasts shown in one behaviour
MaxToasts == 3

\* the id of the toast on screen, 0 when there is none
ShownId == IF toast = Null THEN 0 ELSE toast[1]

\* what the most recent step of the toast did: for a close callback, the
\* toast that scheduled it (id) and the toast it took off the screen
\* (removed, 0 when the screen was empty)
ToastEvent(op, id, removed) == [op |-> op, id |-> id, removed |-> removed]

\* useState(null), useToast.tsx line 22
ToastStart ==
    /\ toast = Null
    /\ isExiting = FALSE
    /\ timers = {}
    /\ closing = {}
    /\ shown = 0
    /\ toastLast = ToastEvent("mount", 0, 0)

ToastAtRest == ToastStart

\* showToast, useToast.tsx lines 24-27, and the render it causes: the Toast
\* of the previous id is unmounted, which clears its expiry timer
\* (toast.tsx line 26); the Toast of the new id is mounted (key, line 47)
\* and its effect arms a timer (toast.tsx lines 20-24).  Ids are fresh.
showToast ==
    /\ shown < MaxToasts
    /\ shown' = shown + 1
    /\ toast' = Some(shown + 1)
    /\ isExiting' = FALSE
    /\ timers' = {shown + 1}
    /\ UNCHANGED closing
    /\ toastLast' = ToastEvent("showToast", shown + 1, 0)
    /\ UNCHANGED <<graphVars, authVars, dashVars>>

\* the expiry timer of toast id fires, toast.tsx lines 21-24
expire(id) ==
    /\ id \in timers
    /\ timers' = timers \ {id}
    /\ isExiting' = TRUE
    /\ closing' = closing \cup {[id |-> id, by |-> "timer"]}
    /\ UNCHANGED <<toast, shown>>
    /\ toastLast' = ToastEvent("expire", id, 0)
    /\ UNCHANGED <<graphVars, authVars, dashVars>>

\* the close button of the toast on screen, toast.tsx lines 70-73
closeButton ==
    /\ toast # Null
    /\ isExiting' = TRUE
    /\ closing' = closing \cup {[id |-> ShownId, by |-> "button"]}
    /\ UNCHANGED <<toast, timers, shown>>
    /\ toastLast' = ToastEvent("closeButton", ShownId, 0)
    /\ UNCHANGED <<graphVars, authVars, dashVars>>

\* removeToast, useToast.tsx lines 37-39, and the render it causes
removeToast ==
    /\ toast' = Null
    /\ isExiting' = FALSE
    /\ timers' = {}

\* the callback c that a timer or a close button scheduled 300 ms before
\* (toast.tsx lines 23 and 72) runs: onClose(id) is removeToast, which takes
\* no id
onClose(c) ==
    /\ c \in closing
    /\ closing' = closing \ {c}
    /\ removeToast
    /\ UNCHANGED shown
    /\ toastLast' = ToastEvent("onClose", c.id, ShownId)
    /\ UNCHANGED <<graphVars, authVars, dashVars>>

----------------------------------------------------------------------------
(* The GitHub integration of the dashboard
   (src/frontend/app/dashboard/page.tsx) *)

\* the asynchronous handlers of the integration; running[h] is the await at
\* which handler h is suspended, "idle" when it is not running
Handlers == {"handleGitHubSync", "handleGitHubDisconnect", "processGitHubCallback"}

\* useState(false) of line 27, for a signed-in user without a GitHub link
\* (c = FALSE) or with one
DashStart(c) ==
    /\ syncing = FALSE
    /\ github_connected = c
    /\ linked = c
    /\ tab = "none"
    /\ running = [h \in Handlers |-> "idle"]

DashAtRest == DashStart(FALSE)

\* handler h is suspended at await pc
At(h, pc) == [running EXCEPT ![h] = pc]

\* handleGitHubSync up to its await, lines 222-235; the button is disabled
\* while syncing (line 409)
handleGitHubSync ==
    /\ ~syncing
    /\ running["handleGitHubSync"] = "idle"
    /\ syncing' = TRUE
    /\ running' = At("handleGitHubSync",
                     IF ~github_connected THEN "githubAuthorize" ELSE "githubSync")
    /\ UNCHANGED <<github_connected, linked, tab>>
    /\ UNCHANGED <<graphVars, authVars, toastVars>>

\* githubAuthorize settles, lines 227-230 and 242-245: the authorization
\* page is opened in a new tab, or the catch block runs
authorizeSettled(ok) ==
    /\ running["handleGitHubSync"] = "githubAuthorize"
    /\ running' = At("handleGitHubSync", "idle")
    /\ tab' = IF ok THEN "open" ELSE tab
    /\ syncing' = IF ok THEN syncing ELSE FALSE
    /\ UNCHANGED <<github_connected, linked>>
    /\ UNCHANGED <<graphVars, authVars, toastVars>>

\* githubSync of handleGitHubSync settles, lines 235-236 and 242-245
syncSettled(ok) ==
    /\ running["handleGitHubSync"] = "githubSync"
    /\ running' = At("handleGitHubSync", IF ok THEN "loadGraphData" ELSE "idle")
    /\ syncing' = IF ok THEN syncing ELSE FALSE
    /\ UNCHANGED <<github_connected, linked, tab>>
    /\ UNCHANGED <<graphVars, authVars, toastVars>>

\* loadGraphData of handleGitHubSync returns (it catches every failure,
\* lines 163-173), lines 236-240
syncLoaded ==
    /\ running["handleGitHubSync"] = "loadGraphData"
    /\ running' = At("handleGitHubSync", "idle")
    /\ syncing' = FALSE
    /\ UNCHANGED <<github_connected, linked, tab>>
    /\ UNCHANGED <<graphVars, authVars, toastVars>>

\* handleGitHubDisconnect up to its await, lines 248-252; the button exists
\* only for a connected account and is disabled while syncing (lines 431-437)
handleGitHubDisconnect ==
    /\ ~syncing
    /\ github_connected
    /\ running["handleGitHubDisconnect"] = "idle"
    /\ syncing' = TRUE
    /\ running' = At("handleGitHubDisconnect", "githubDisconnect")
    /\ UNCHANGED <<github_connected, linked, tab>>
    /\ UNCHANGED <<graphVars, authVars, toastVars>>

\* githubDisconnect settles, lines 252-260
disconnectSettled(ok) ==
    /\ running["handleGitHubDisconnect"] = "githubDisconnect"
    /\ running' = At("handleGitHubDisconnect", IF ok THEN "refreshUser" ELSE "idle")
    /\ linked' = IF ok THEN FALSE ELSE linked
    /\ syncing' = IF ok THEN syncing ELSE FALSE
    /\ UNCHANGED <<github_connected, tab>>
    /\ UNCHANGED <<graphVars, authVars, toastVars>>

\* refreshUser of handleGitHubDisconnect returns (it catches a failure,
\* AuthContext.tsx lines 77-84), lines 255-260
disconnectRefreshed(ok) ==
    /\ running["handleGitHubDisconnect"] = "refreshUser"
    /\ running' = At("handleGitHubDisconnect", "idle")
    /\ github_connected' = IF ok THEN linked ELSE github_connected
    /\ syncing' = FALSE
    /\ UNCHANGED <<linked, tab>>
    /\ UNCHANGED <<graphVars, authVars, toastVars>>

\* the user authorizes in the tab: the callback page posts github_code to
\* its opener and closes (route.ts lines 64-66); handleMessage starts
\* processGitHubCallback, lines 148-151 and 99-105
messageCode ==
    /\ tab = "open"
    /\ running["processGitHubCallback"] = "idle"
    /\ tab' = "closed"
    /\ running' = At("processGitHubCallback", "githubCallback")
    /\ UNCHANGED <<syncing, github_connected, linked>>
    /\ UNCHANGED <<graphVars, authVars, toastVars>>

\* the user denies in the tab: the callback page posts github_error
\* (route.ts lines 19-21); handleMessage, lines 152-155
messageError ==
    /\ tab = "open"
    /\ tab' = "closed"
    /\ syncing' = FALSE
    /\ UNCHANGED <<github_connected, linked, running>>
    /\ UNCHANGED <<graphVars, authVars, toastVars>>

\* the user closes the tab without finishing the authorization: no message
\* is posted
tabClosed ==
    /\ tab = "open"
    /\ tab' = "closed"
    /\ UNCHANGED <<syncing, github_connected, linked, running>>
    /\ UNCHANGED <<graphVars, authVars, toastVars>>

\* githubCallback settles, lines 105-111 and 132-136
callbackSettled(ok) ==
    /\ running["processGitHubCallback"] = "githubCallback"
    /\ running' = At("processGitHubCallback", IF ok THEN "refreshUser" ELSE "idle")
    /\ linked' = IF ok THEN TRUE ELSE linked
    /\ syncing' = IF ok THEN syncing ELSE FALSE
    /\ UNCHANGED <<github_connected, tab>>
    /\ UNCHANGED <<graphVars, authVars, toastVars>>

\* refreshUser of processGitHubCallback returns, lines 111-118
callbackRefreshed(ok) ==
    /\ running["processGitHubCallback"] = "refreshUser"
    /\ running' = At("processGitHubCallback", "setTimeout")
    /\ github_connected' = IF ok THEN linked ELSE github_connected
    /\ syncing' = FALSE
    /\ UNCHANGED <<linked, tab>>
    /\ UNCHANGED <<graphVars, authVars, toastVars>>

\* the 800 ms of line 118 have passed, lines 118-124
callbackWaited ==
    /\ running["processGitHubCallback"] = "setTimeout"
    /\ running' = At("processGitHubCallback", "githubSync")
    /\ UNCHANGED <<syncing, github_connected, linked, tab>>
    /\ UNCHANGED <<graphVars, authVars, toastVars>>

\* githubSync of processGitHubCallback settles, lines 124-130 and 132-136
callbackSynced(ok) ==
    /\ running["processGitHubCallback"] = "githubSync"
    /\ running' = At("processGitHubCallback", IF ok THEN "loadGraphData" ELSE "idle")
    /\ syncing' = IF ok THEN syncing ELSE FALSE
    /\ UNCHANGED <<github_connected, linked, tab>>
    /\ UNCHANGED <<graphVars, authVars, toastVars>>

\* loadGraphData of processGitHubCallback returns, line 130
callbackLoaded ==
    /\ running["processGitHubCallback"] = "loadGraphData"
    /\ running' = At("processGitHubCallback", "idle")
    /\ UNCHANGED <<syncing, github_connected, linked, tab>>
    /\ UNCHANGED <<graphVars, authVars, toastVars>>

----------------------------------------------------------------------------
(* Specifications of the page components.  Each holds the other components
   at rest. *)

InitAuth ==
    /\ GraphAtRest
    /\ \E t \in StoredAtLoad : AuthStart(t)
    /\ ToastAtRest
    /\ DashAtRest

NextAuth ==
    \/ checkAuth
    \/ \E ok \in BOOLEAN : checkAuthSettled(ok)
    \/ login
    \/ signup
    \/ \E k \in {"login", "signup"}, r \in Tokens \cup {"rejected"} : credentialsSettled(k, r)
    \/ \E k \in {"login", "signup"}, ok \in BOOLEAN : getMeSettled(k, ok)
    \/ logout
    \/ refreshUser
    \/ \E ok \in BOOLEAN : refreshUserSettled(ok)

SpecAuth == InitAuth /\ [][NextAuth]_vars

InitToast ==
    /\ GraphAtRest
    /\ AuthAtRest
    /\ ToastStart
    /\ DashAtRest

NextToast ==
    \/ showToast
    \/ \E id \in 1..MaxToasts : expire(id)
    \/ closeButton
    \/ \E id \in 1..MaxToasts, by \in {"timer", "button"} : onClose([id |-> id, by |-> by])

SpecToast == InitToast /\ [][NextToast]_vars

InitDash ==
    /\ GraphAtRest
    /\ AuthAtRest
    /\ ToastAtRest
    /\ \E c \in BOOLEAN : DashStart(c)

\* the steps by which a handler that is running goes on
SyncGoesOn ==
    \/ \E ok \in BOOLEAN : authorizeSettled(ok)
    \/ \E ok \in BOOLEAN : syncSettled(ok)
    \/ syncLoaded

DisconnectGoesOn ==
    \/ \E ok \in BOOLEAN : disconnectSettled(ok)
    \/ \E ok \in BOOLEAN : disconnectRefreshed(ok)

CallbackGoesOn ==
    \/ \E ok \in BOOLEAN : callbackSettled(ok)
    \/ \E ok \in BOOLEAN : callbackRefreshed(ok)
    \/ callbackWaited
    \/ \E ok \in BOOLEAN : callbackSynced(ok)
    \/ callbackLoaded

\* the ways the authorization tab ends
TabEnds ==
    \/ messageCode
    \/ messageError
    \/ tabClosed

NextDash ==
    \/ handleGitHubSync
    \/ handleGitHubDisconnect
    \/ SyncGoesOn
    \/ DisconnectGoesOn
    \/ CallbackGoesOn
    \/ TabEnds

\* Every backend request settles and every timer fires, so a running handler
\* goes on; the authorization tab ends in one of its three ways.  Nothing
\* makes the user press a button.
SpecDash ==
    /\ InitDash
    /\ [][NextDash]_vars
    /\ WF_vars(SyncGoesOn)
    /\ WF_vars(DisconnectGoesOn)
    /\ WF_vars(CallbackGoesOn)
    /\ WF_vars(TabEnds)

----------------------------------------------------------------------------
(* The graph component *)

Init ==
    /\ nodes = {}
    /\ edges = {}
    /\ interactive \in BOOLEAN
    /\ onNodeClick \in {"none", "ok", "throws"}
    /\ cyRef = "null"
    /\ cy = NoInstance
    /\ selectedNode = Null
    /\ crashed = FALSE
    /\ cursor = "default"
    /\ mounted = TRUE
    /\ retired = {}
    /\ last = [op |-> "mount", arg |-> "", from |-> "", emitted |-> <<>>,
               layouts |-> 0, options |-> {}, acted |-> FALSE, threw |-> FALSE,
               again |-> FALSE,
               bb |-> 0, centers |-> FALSE]
    /\ AuthAtRest
    /\ ToastAtRest
    /\ DashAtRest

Live == mounted /\ ~crashed /\ cyRef = "cy" /\ ~cy.destroyed

\* a cleanup that leaves the instance alive
CleanupKeeps(c) == c

\* The effect's cleanup (lines 245-247) exists only when the effect built an
\* instance.  destroy() detaches the instance's listeners and stops its
\* animation loop: no layout run of it animates any more.
Cleanup(c) ==
    IF cyRef = "cy" /\ ~c.destroyed
    THEN [c EXCEPT !.destroyed = TRUE, !.runs = {}]
    ELSE c

\* the instances no effect refers to any more, once the instance c that
\* cyRef pointed to is replaced by a new one or the component is gone
Retire(c) == IF cyRef = "cy" THEN retired \cup {c.destroyed} ELSE retired

\* layout.run() on a live instance (lines 183-195, 274-279): the new run is
\* the youngest, every run still animating is one run older
StartRun(c) ==
    [c EXCEPT !.runs = {Aged(a) : a \in c.runs} \cup {0},
              !.positions = Aged(c.positions)]

\* nodes/edges replaced by new arrays: cleanup of the previous effect, then the
\* effect body (lines 50-248)
Render(in) ==
    /\ UNCHANGED <<authVars, toastVars, dashVars>>
    /\ mounted /\ ~crashed
    /\ nodes' = in.nodes
    /\ edges' = in.edges
    /\ cursor' = cursor
    /\ UNCHANGED <<interactive, onNodeClick, selectedNode, mounted>>
    /\ IF in.nodes = {}
       THEN /\ cy' = Cleanup(cy)
            /\ UNCHANGED <<cyRef, crashed, retired>>
            /\ last' = Event("render", "")
       ELSE IF MapThrows(in.nodes)
       THEN /\ cy' = Cleanup(cy)
            /\ crashed' = TRUE
            /\ UNCHANGED <<cyRef, retired>>
            /\ last' = [Event("render", "") EXCEPT !.threw = TRUE]
       ELSE /\ retired' = Retire(Cleanup(cy))
            /\ cy' = [nodes |-> NodeElements(in.nodes),
                      edges |-> EdgeElements(in.nodes, in.edges),
                      highlighted |-> {}, faded |-> {},
                      zoom |-> InitialZoom, destroyed |-> FALSE,
                      handlers |-> interactive,
                      runs |-> {0}, positions |-> Older]
            /\ cyRef' = "cy"
            /\ UNCHANGED crashed
            /\ last' = [Event("render", "") EXCEPT
                               !.layouts = 1, !.acted = TRUE,
                               !.options = {WithDefaults(InitialLayout)}]

\* the component is unmounted: the cleanup of the last effect (lines 245-247)
Unmount ==
    /\ UNCHANGED <<authVars, toastVars, dashVars>>
    /\ mounted /\ ~crashed
    /\ mounted' = FALSE
    /\ cy' = Cleanup(cy)
    /\ retired' = Retire(Cleanup(cy))
    /\ UNCHANGED <<nodes, edges, interactive, onNodeClick, cyRef, selectedNode,
                   crashed, cursor>>
    /\ last' = Event("unmount", "")

\* a listener call made twice
NotifyTwice(nodeData) ==
    IF onNodeClick = "none" THEN <<>>
    ELSE <<[id |-> nodeData.id, data |-> nodeData],
           [id |-> nodeData.id, data |-> nodeData]>>

\* lines 210-212: the onNodeClick calls of one node tap
Notify(nodeData) ==
    IF onNodeClick = "none" THEN <<>>
    ELSE <<[id |-> nodeData.id, data |-> nodeData]>>

\* a tap handler that toggles: tapping the selected node clears the selection
TapNodeToggle(n) ==
    /\ UNCHANGED <<authVars, toastVars, dashVars>>
    /\ Live
    /\ n \in NodeIds(cy)
    /\ UNCHANGED <<nodes, edges, interactive, onNodeClick, cyRef, crashed, mounted, retired, cursor>>
    /\ IF ~cy.handlers
       THEN /\ UNCHANGED <<cy, selectedNode>>
            /\ last' = Event("tapNode", n)
       ELSE LET nodeData == DataOf(cy, n)
            IN  /\ selectedNode' = IF selectedNode = Some(nodeData) THEN Null
                                   ELSE Some(nodeData)
                /\ IF onNodeClick = "throws"
                   THEN cy' = cy
                   ELSE IF selectedNode = Some(nodeData)
                   THEN cy' = RemoveClasses(cy)
                   ELSE cy' = Highlight(RemoveClasses(cy), n)
                /\ last' = [Event("tapNode", n) EXCEPT
                               !.emitted = Notify(nodeData), !.acted = TRUE,
                               !.threw = (onNodeClick = "throws")]

\* a tap handler without the removeClass of line 215: it adds the new marks
\* to the marks on the graph
TapNodeKeepsMarks(n) ==
    /\ UNCHANGED <<authVars, toastVars, dashVars>>
    /\ Live
    /\ n \in NodeIds(cy)
    /\ UNCHANGED <<nodes, edges, interactive, onNodeClick, cyRef, crashed, mounted, retired, cursor>>
    /\ IF ~cy.handlers
       THEN /\ UNCHANGED <<cy, selectedNode>>
            /\ last' = Event("tapNode", n)
       ELSE LET nodeData == DataOf(cy, n)
                marked == Highlight(cy, n)
            IN  /\ selectedNode' = Some(nodeData)
                /\ IF onNodeClick = "throws"
                   THEN cy' = cy
                   ELSE cy' = [cy EXCEPT
                                  !.highlighted = cy.highlighted \cup marked.highlighted,
                                  !.faded = cy.faded \cup marked.faded]
                /\ last' = [Event("tapNode", n) EXCEPT
                               !.emitted = Notify(nodeData), !.acted = TRUE,
                               !.threw = (onNodeClick = "throws")]

\* cy.on('tap', 'node', ...), lines 205-223; the core tap handler of lines
\* 225-230 also sees the event and ignores it (evt.target is the node)
TapNode(n) ==
    /\ UNCHANGED <<authVars, toastVars, dashVars>>
    /\ Live
    /\ n \in NodeIds(cy)
    /\ UNCHANGED <<nodes, edges, interactive, onNodeClick, cyRef, crashed, mounted, retired, cursor>>
    /\ IF ~cy.handlers
       THEN /\ UNCHANGED <<cy, selectedNode>>
            /\ last' = Event("tapNode", n)
       ELSE LET nodeData == DataOf(cy, n)
            IN  /\ selectedNode' = Some(nodeData)
                /\ IF onNodeClick = "throws"
                   THEN cy' = cy
                   ELSE cy' = Highlight(RemoveClasses(cy), n)
                /\ last' = [Event("tapNode", n) EXCEPT
                               !.emitted = Notify(nodeData), !.acted = TRUE,
                               !.threw = (onNodeClick = "throws")]

\* a background tap that clears the classes and keeps the selection
TapBackgroundKeepsSelection ==
    /\ UNCHANGED <<authVars, toastVars, dashVars>>
    /\ Live
    /\ UNCHANGED <<nodes, edges, interactive, onNodeClick, cyRef, crashed, mounted, retired, cursor,
                   selectedNode>>
    /\ cy' = IF cy.handlers THEN RemoveClasses(cy) ELSE cy
    /\ last' = [Event("tapBackground", "") EXCEPT !.acted = cy.handlers]

\* cy.on('tap', ...) with evt.target === cy, lines 225-230
TapBackground ==
    /\ UNCHANGED <<authVars, toastVars, dashVars>>
    /\ Live
    /\ UNCHANGED <<nodes, edges, interactive, onNodeClick, cyRef, crashed, mounted, retired, cursor>>
    /\ IF ~cy.handlers
       THEN /\ UNCHANGED <<cy, selectedNode>>
            /\ last' = Event("tapBackground", "")
       ELSE /\ cy' = RemoveClasses(cy)
            /\ selectedNode' = Null
            /\ last' = [Event("tapBackground", "") EXCEPT !.acted = TRUE]

\* an edge tap that the core handler takes for a tap on the background
TapEdgeAsBackground(e) ==
    /\ UNCHANGED <<authVars, toastVars, dashVars>>
    /\ Live
    /\ e \in EdgeIds(cy)
    /\ UNCHANGED <<nodes, edges, interactive, onNodeClick, cyRef, crashed, mounted, retired, cursor>>
    /\ cy' = IF cy.handlers THEN RemoveClasses(cy) ELSE cy
    /\ selectedNode' = IF cy.handlers THEN Null ELSE selectedNode
    /\ last' = Event("tapEdge", e)

\* a tap on an edge: no node handler matches, and the core handler's test
\* evt.target === cy (line 226) fails
TapEdge(e) ==
    /\ UNCHANGED <<authVars, toastVars, dashVars>>
    /\ Live
    /\ e \in EdgeIds(cy)
    /\ UNCHANGED <<nodes, edges, interactive, onNodeClick, cyRef, crashed, mounted, retired, cursor,
                   cy, selectedNode>>
    /\ last' = Event("tapEdge", e)

\* a hover that selects the node under the pointer
MouseOverSelects(n) ==
    /\ UNCHANGED <<authVars, toastVars, dashVars>>
    /\ Live
    /\ cy.handlers
    /\ n \in NodeIds(cy)
    /\ cursor' = IF n \notin cy.faded THEN "pointer" ELSE cursor
    /\ selectedNode' = Some(DataOf(cy, n))
    /\ UNCHANGED <<nodes, edges, interactive, onNodeClick, cyRef, crashed,
                   mounted, retired, cy>>
    /\ last' = Event("mouseover", n)

\* lines 233-238
MouseOver(n) ==
    /\ UNCHANGED <<authVars, toastVars, dashVars>>
    /\ Live
    /\ cy.handlers
    /\ n \in NodeIds(cy)
    /\ cursor' = IF n \notin cy.faded THEN "pointer" ELSE cursor
    /\ UNCHANGED <<nodes, edges, interactive, onNodeClick, cyRef, crashed,
                   mounted, retired, cy, selectedNode>>
    /\ last' = Event("mouseover", n)

\* lines 240-242
MouseOut ==
    /\ UNCHANGED <<authVars, toastVars, dashVars>>
    /\ Live
    /\ cy.handlers
    /\ cursor' = "default"
    /\ UNCHANGED <<nodes, edges, interactive, onNodeClick, cyRef, crashed,
                   mounted, retired, cy, selectedNode>>
    /\ last' = Event("mouseout", "")

\* The buttons of lines 294-334 exist only when interactive.
Controls == mounted /\ ~crashed /\ interactive

\* a zoom-in button that sets one fixed level, 1.2 times the initial zoom
handleZoomInOnce ==
    /\ UNCHANGED <<authVars, toastVars, dashVars>>
    /\ Controls
    /\ UNCHANGED <<nodes, edges, interactive, onNodeClick, cyRef, crashed, mounted, retired, cursor,
                   selectedNode>>
    /\ IF cyRef = "null"
       THEN /\ cy' = cy
            /\ last' = Event("zoomIn", "")
       ELSE /\ cy' = SetZoom(cy, Scale(InitialZoom, 12, 10))
            /\ last' = [Event("zoomIn", "") EXCEPT !.acted = TRUE, !.centers = TRUE]

\* lines 250-255
handleZoomIn ==
    /\ UNCHANGED <<authVars, toastVars, dashVars>>
    /\ Controls
    /\ UNCHANGED <<nodes, edges, interactive, onNodeClick, cyRef, crashed, mounted, retired, cursor,
                   selectedNode>>
    /\ IF cyRef = "null"
       THEN /\ cy' = cy
            /\ last' = Event("zoomIn", "")
       ELSE /\ cy' = SetZoom(cy, Scale(cy.zoom, 12, 10))
            /\ last' = [Event("zoomIn", "") EXCEPT !.acted = TRUE, !.centers = TRUE]

\* lines 257-262
handleZoomOut ==
    /\ UNCHANGED <<authVars, toastVars, dashVars>>
    /\ Controls
    /\ UNCHANGED <<nodes, edges, interactive, onNodeClick, cyRef, crashed, mounted, retired, cursor,
                   selectedNode>>
    /\ IF cyRef = "null"
       THEN /\ cy' = cy
            /\ last' = Event("zoomOut", "")
       ELSE /\ cy' = SetZoom(cy, Scale(cy.zoom, 8, 10))
            /\ last' = [Event("zoomOut", "") EXCEPT !.acted = TRUE, !.centers = TRUE]

\* lines 264-268; bb is the extent of the bounding box of the laid-out graph
handleFit(bb) ==
    /\ UNCHANGED <<authVars, toastVars, dashVars>>
    /\ Controls
    /\ UNCHANGED <<nodes, edges, interactive, onNodeClick, cyRef, crashed, mounted, retired, cursor,
                   selectedNode>>
    /\ IF cyRef = "null"
       THEN /\ cy' = cy
            /\ last' = Event("fit", "")
       ELSE /\ cy' = [cy EXCEPT !.zoom = FitZoom(bb)]
            /\ last' = [Event("fit", "") EXCEPT
                           !.acted = TRUE, !.centers = TRUE, !.bb = bb,
                           !.again = (last.op = "fit" /\ last.bb = bb)]

\* a reset that clears the classes and keeps the selection
handleResetKeepsSelection ==
    /\ UNCHANGED <<authVars, toastVars, dashVars>>
    /\ Controls
    /\ UNCHANGED <<nodes, edges, interactive, onNodeClick, cyRef, crashed, mounted, retired, cursor,
                   selectedNode>>
    /\ IF cyRef = "null"
       THEN /\ UNCHANGED cy
            /\ last' = Event("reset", "")
       ELSE /\ cy' = IF cy.destroyed THEN RemoveClasses(cy)
                     ELSE StartRun(RemoveClasses(cy))
            /\ last' = [Event("reset", IF cy.runs # {} THEN "animating" ELSE "")
                           EXCEPT !.layouts = 1, !.acted = TRUE,
                                  !.options = {WithDefaults(ResetLayout)}]

\* lines 270-281; the event's argument tells whether a layout run was still
\* animating when the new one was started
handleReset ==
    /\ UNCHANGED <<authVars, toastVars, dashVars>>
    /\ Controls
    /\ UNCHANGED <<nodes, edges, interactive, onNodeClick, cyRef, crashed, mounted, retired, cursor>>
    /\ IF cyRef = "null"
       THEN /\ UNCHANGED <<cy, selectedNode>>
            /\ last' = Event("reset", "")
       ELSE /\ cy' = IF cy.destroyed THEN RemoveClasses(cy)
                     ELSE StartRun(RemoveClasses(cy))
            /\ selectedNode' = Null
            /\ last' = [Event("reset", IF cy.runs # {} THEN "animating" ELSE "")
                           EXCEPT !.layouts = 1, !.acted = TRUE,
                                  !.options = {WithDefaults(ResetLayout)}]

\* one animation frame of a layout run that is still animating moves the nodes
LayoutStep(a) ==
    /\ UNCHANGED <<authVars, toastVars, dashVars>>
    /\ Live
    /\ a \in cy.runs
    /\ cy' = [cy EXCEPT !.positions = a]
    /\ UNCHANGED <<nodes, edges, interactive, onNodeClick, cyRef, crashed, mounted,
                   retired, cursor, selectedNode, last>>

\* the runs still animating once a run of age a has ended: Older may stand
\* for several runs, of which others may still animate
Ended(c, a) ==
    IF a = Older /\ a # 0 THEN {c.runs \ {a}, c.runs} ELSE {c.runs \ {a}}

\* layout runs that end in any order
LayoutStopAny ==
    /\ UNCHANGED <<authVars, toastVars, dashVars>>
    /\ Live
    /\ \E a \in cy.runs : \E rest \in Ended(cy, a) :
           cy' = [cy EXCEPT !.positions = a, !.runs = rest]
    /\ UNCHANGED <<nodes, edges, interactive, onNodeClick, cyRef, crashed, mounted,
                   retired, cursor, selectedNode, last>>

\* A layout run ends: its last frame puts the nodes on its final positions.
\* Every run animates for the same animationDuration (lines 186 and 276), so
\* the runs end in the order they were started: the oldest first.
LayoutStop ==
    /\ UNCHANGED <<authVars, toastVars, dashVars>>
    /\ Live
    /\ cy.runs # {}
    /\ LET a == CHOOSE x \in cy.runs : \A y \in cy.runs : y <= x
       IN  \E rest \in Ended(cy, a) :
               cy' = [cy EXCEPT !.positions = a, !.runs = rest]
    /\ UNCHANGED <<nodes, edges, interactive, onNodeClick, cyRef, crashed, mounted,
                   retired, cursor, selectedNode, last>>

\* A wheel gesture over the canvas.  The instance is created with Cytoscape's
\* user zooming left enabled and wheelSensitivity 0.2 (line 198), whatever
\* `interactive` is; one wheel notch scales the zoom by 10^(+-0.08).
Wheel(up) ==
    /\ UNCHANGED <<authVars, toastVars, dashVars>>
    /\ Live
    /\ UNCHANGED <<nodes, edges, interactive, onNodeClick, cyRef, crashed, mounted, retired, cursor,
                   selectedNode>>
    /\ cy' = SetZoom(cy, IF up THEN Scale(cy.zoom, 120, 100)
                               ELSE Scale(cy.zoom, 83, 100))
    /\ last' = [Event("wheel", "") EXCEPT !.acted = TRUE]

Next ==
    \/ \E in \in Inputs : Render(in)
    \/ \E n \in {d.id : d \in NodePool} : TapNode(n)
    \/ TapBackground
    \/ \E e \in {d.id : d \in EdgePool} : TapEdge(e)
    \/ \E n \in {d.id : d \in NodePool} : MouseOver(n)
    \/ MouseOut
    \/ handleZoomIn
    \/ handleZoomOut
    \/ \E bb \in BBoxes : handleFit(bb)
    \/ handleReset
    \/ \E up \in BOOLEAN : Wheel(up)
    \/ Unmount

\* The events of the host and of the user.  The frames of the layout
\* animation write cy.runs and cy.positions only, and no event of Next reads
\* either: SpecLayout interleaves them with the events that start and end
\* layout runs and instances.
Spec == Init /\ [][Next]_vars

NextLayout ==
    \/ \E in \in Inputs : Render(in)
    \/ \E n \in {d.id : d \in NodePool} : TapNode(n)
    \/ TapBackground
    \/ handleReset
    \/ \E a \in 0..Older : LayoutStep(a)
    \/ LayoutStop
    \/ Unmount

SpecLayout == Init /\ [][NextLayout]_vars

----------------------------------------------------------------------------
(* Properties *)

\* the edges of the rendered graph that touch node n
IncidentEdges(n) == { e \in cy.edges : e.source = n \/ e.target = n }

\* the nodes an edge joins to n
Neighbors(n) ==
    { m \in NodeIds(cy) : \E e \in IncidentEdges(n) :
         \/ e.source = n /\ e.target = m
         \/ e.target = n /\ e.source = m }

ClosedNeighborhood(n) ==
    {n} \cup { e.id : e \in IncidentEdges(n) } \cup Neighbors(n)

\* C1: after a tap on node n whose handler ran to its end, highlighted is
\* {n} with n's incident edges and neighbours, and faded is every other
\* element, also for a node with no incident edge.
C1_TapHighlightsClosedNeighborhood ==
    (last.op = "tapNode" /\ last.acted /\ ~last.threw) =>
        /\ cy.highlighted = ClosedNeighborhood(last.arg)
        /\ cy.faded = AllIds(cy) \ ClosedNeighborhood(last.arg)

\* C2: in every reachable state the highlighted and the faded set are
\* disjoint, and both are empty whenever selectedNode is null.
C2_DisjointAndEmptyWhenIdle ==
    /\ cy.highlighted \cap cy.faded = {}
    /\ selectedNode = Null => (cy.highlighted = {} /\ cy.faded = {})

C2_Witness ==
    /\ selectedNode # Null
    /\ cy.highlighted # {}
    /\ cy.faded # {}
    /\ last.op = "tapNode"

\* C3: a tap on the background leaves RenderState at exactly the Idle value,
\* from a selection as well as from Idle.
C3_BackgroundTapGivesIdle ==
    last.op = "tapBackground" => RenderState = Idle

C3_Witness ==
    /\ last.op = "tapBackground"
    /\ last.from # ""
    /\ last.acted
    /\ RenderState = Idle

\* C4: a tap on node n that directly follows a tap on n leaves RenderState
\* as the first tap left it, and n stays selected.
C4_RetapIsIdempotent ==
    [][ (last.op = "tapNode" /\ last'.op = "tapNode" /\ last'.arg = last.arg)
          => /\ RenderState' = RenderState
             /\ (last'.acted => selectedNode' # Null /\ selectedNode'[1].id = last'.arg) ]_vars

C4_Witness ==
    /\ last.op = "tapNode"
    /\ last.again
    /\ last.acted
    /\ selectedNode # Null
    /\ cy.highlighted # {}

\* the data map the input gives node id
InputData(id) == CHOOSE d \in nodes : d.id = id

\* C5: with a listener bound, every handled node tap calls onNodeClick
\* exactly once, with the node's id and its full data map, and no other
\* event calls it.
C5_NodeTapNotifiesOnce ==
    /\ (last.op = "tapNode" /\ cy.handlers /\ onNodeClick # "none") =>
           last.emitted = <<[id |-> last.arg, data |-> InputData(last.arg)]>>
    /\ last.op # "tapNode" => last.emitted = <<>>

C5_Witness ==
    /\ last.op = "tapNode"
    /\ last.again
    /\ last.from = last.arg
    /\ Len(last.emitted) = 1

\* r is z * num / 10 held to [MinZoom, MaxZoom]: the nearest bound when the
\* product lies outside, else the product to the nearest tenth
ClampedProduct(r, z, num) ==
    IF z * num > 10 * MaxZoom THEN r = MaxZoom
    ELSE IF z * num < 10 * MinZoom THEN r = MinZoom
    ELSE 10 * r - z * num \in -5..5

\* C6: the zoom factor of the instance always lies in [0.3, 3.0]; zoomIn
\* sets it to 1.2 times and zoomOut to 0.8 times the current factor, held
\* to the nearest bound of the range.
C6_ZoomStaysInRange ==
    /\ [](cyRef = "cy" => (MinZoom <= cy.zoom /\ cy.zoom <= MaxZoom))
    /\ [][ /\ (last'.op = "zoomIn" /\ last'.acted)
              => ClampedProduct(cy'.zoom, cy.zoom, 12)
           /\ (last'.op = "zoomOut" /\ last'.acted)
              => ClampedProduct(cy'.zoom, cy.zoom, 8) ]_vars

C6_Witness ==
    /\ last.op = "zoomIn"
    /\ last.acted
    /\ cy.zoom = MaxZoom

\* C7: with interactive false RenderState stays Idle, onNodeClick is never
\* called, and nothing but a render changes the zoom factor.
C7_StaticWhenNotInteractive ==
    /\ [](~interactive => (RenderState = Idle /\ last.emitted = <<>>))
    /\ [][ (~interactive /\ last'.op # "render") => cy'.zoom = cy.zoom ]_vars

\* C8: while the node list is empty no instance of it exists and no event
\* starts a layout run, whatever was rendered before.
C8_EmptyInputRunsNoLayout ==
    nodes = {} =>
        /\ (cyRef = "null" \/ cy.destroyed)
        /\ last.layouts = 0

\* C9: zoomIn, zoomOut and fit while no graph is rendered (no instance yet,
\* or an empty node list) change nothing and act on no instance.
C9_ViewportNoOpWithoutGraph ==
    [][ ((cyRef = "null" \/ nodes = {}) /\ last'.op \in {"zoomIn", "zoomOut", "fit"})
          => (cy' = cy /\ ~last'.acted) ]_vars

\* the nodes of the input that carry a type
WellFormedNodes == { n \in nodes : n.type # Undefined }

\* the edges of the input whose two ends are well-formed nodes of the input
WellFormedEdges ==
    { e \in edges : /\ \E n \in WellFormedNodes : n.id = e.source
                    /\ \E n \in WellFormedNodes : n.id = e.target }

\* C10: building the graph from a non-empty input never throws; the
\* rendered graph holds exactly the well-formed nodes and edges.
C10_MalformedInputIsSkipped ==
    (last.op = "render" /\ nodes # {}) =>
        /\ ~last.threw
        /\ { el.data : el \in cy.nodes } = WellFormedNodes
        /\ cy.edges = WellFormedEdges

\* r is the zoom at which a bounding box of extent bb fills the container
\* less the padding on both sides, held to [MinZoom, MaxZoom]
FittedZoom(r, bb) ==
    LET room == 10 * (ContainerSize - 2 * FitPadding)
    IN  IF room > MaxZoom * bb THEN r = MaxZoom
        ELSE IF room < MinZoom * bb THEN r = MinZoom
        ELSE /\ 2 * (r * bb - room) <= bb
             /\ 2 * (room - r * bb) <= bb

\* C11: a hover (mouseover, mouseout), a zoom in, a zoom out and a fit leave
\* selectedNode, the highlighted set and the faded set as they were, and the
\* zoom a viewport operation gives is fixed by the zoom before it (by the
\* bounding box, for a fit), whether or not a node is selected.
C11_HoverAndViewportKeepRenderState ==
    [][ /\ last'.op \in {"mouseover", "mouseout", "zoomIn", "zoomOut", "fit"}
            => RenderState' = RenderState
        /\ (last'.op = "zoomIn" /\ last'.acted)
            => ClampedProduct(cy'.zoom, cy.zoom, 12)
        /\ (last'.op = "zoomOut" /\ last'.acted)
            => ClampedProduct(cy'.zoom, cy.zoom, 8)
        /\ (last'.op = "fit" /\ last'.acted)
            => FittedZoom(cy'.zoom, last'.bb) ]_vars

C11_Witness ==
    /\ last.op = "zoomOut"
    /\ last.acted
    /\ selectedNode # Null
    /\ cy.faded # {}
    /\ cy.zoom < InitialZoom
    /\ cursor = "pointer"

\* C12: a zoom in, a zoom out or a fit (of the same bounding box) applied
\* directly after the same operation leaves the zoom factor as the first
\* application left it, and the viewport centred.
C12_ViewportOpsIdempotent ==
    [][ (last'.op \in {"zoomIn", "zoomOut", "fit"} /\ last'.again /\ last'.acted)
            => (cy'.zoom = cy.zoom /\ last'.centers) ]_vars

\* C12 as the code has it: a repeated fit of the same bounding box changes
\* nothing; a repeated zoom in (zoom out) re-centres and multiplies the factor
\* once more, so it raises (lowers) the factor unless the factor is already
\* at MaxZoom (MinZoom).
C12_OnlyFitIsIdempotent ==
    [][ /\ (last'.op = "fit" /\ last'.again /\ last'.acted)
            => (cy'.zoom = cy.zoom /\ last'.centers)
        /\ (last'.op = "zoomIn" /\ last'.again /\ last'.acted)
            => /\ last'.centers
               /\ IF cy.zoom = MaxZoom THEN cy'.zoom = cy.zoom ELSE cy'.zoom > cy.zoom
        /\ (last'.op = "zoomOut" /\ last'.again /\ last'.acted)
            => /\ last'.centers
               /\ IF cy.zoom = MinZoom THEN cy'.zoom = cy.zoom ELSE cy'.zoom < cy.zoom
      ]_vars

C12_Witness ==
    /\ last.op = "zoomIn"
    /\ last.again
    /\ last.acted
    /\ cy.zoom = Scale(Scale(InitialZoom, 12, 10), 12, 10)

\* C13: a background tap that takes the component from a selection to Idle
\* clears both class sets and tells the bound listener once that the
\* selection was cleared.
C13_BackgroundTapNotifiesClear ==
    (last.op = "tapBackground" /\ last.acted /\ last.from # "" /\ onNodeClick # "none")
        => (RenderState = Idle /\ Len(last.emitted) = 1)

\* the extent, in tenths of a pixel at zoom 1, the container shows between
\* its paddings
Room == 10 * (ContainerSize - 2 * FitPadding)

\* C14: after a fit of a rendered, non-empty graph the viewport is centred
\* on the bounding box, the bounding box at the new zoom is no larger than
\* the container less the padding on both sides (every node lies inside the
\* inset viewport), and the zoom is within [MinZoom, MaxZoom].
C14_FitShowsEveryNode ==
    (last.op = "fit" /\ last.acted /\ Live /\ nodes # {}) =>
        /\ last.centers
        /\ cy.zoom * last.bb <= Room
        /\ MinZoom <= cy.zoom /\ cy.zoom <= MaxZoom

\* C14 as the code has it: the zoom is within the range and the viewport
\* centred; every node lies inside the inset viewport when the bounding box
\* fits there at MinZoom, and for a larger bounding box the zoom is MinZoom.
C14_FitShowsEveryNodeDownToMinZoom ==
    (last.op = "fit" /\ last.acted /\ Live /\ nodes # {}) =>
        /\ last.centers
        /\ MinZoom <= cy.zoom /\ cy.zoom <= MaxZoom
        /\ IF MinZoom * last.bb <= Room
           THEN cy.zoom * last.bb <= Room
           ELSE cy.zoom = MinZoom

C14_Witness ==
    /\ last.op = "fit"
    /\ last.acted
    /\ Live
    /\ nodes # {}
    /\ cy.zoom * last.bb = Room
    /\ cy.zoom < MaxZoom

\* C15: whenever a node is selected and a graph is rendered, also after the
\* input was replaced and the graph rebuilt, the faded elements are exactly
\* the elements outside the selected node's closed neighbourhood (stated for
\* listeners that return).
C15_SelectionFadesTheRest ==
    (selectedNode # Null /\ Live /\ onNodeClick # "throws") =>
        cy.faded = AllIds(cy) \ ClosedNeighborhood(SelectedId)

\* the RenderState a tap on node m gives when nothing is selected and no
\* element is marked: m selected, and, unless the listener throws before the
\* marks are set, m's edges and their end nodes highlighted and every element
\* outside m's closed neighbourhood faded
TapFromIdle(m) ==
    [selectedNode |-> Some(InputData(m)),
     highlighted |-> IF onNodeClick = "throws" \/ IncidentEdges(m) = {} THEN {}
                     ELSE ClosedNeighborhood(m),
     faded |-> IF onNodeClick = "throws" THEN {}
               ELSE AllIds(cy) \ ClosedNeighborhood(m)]

C17_NewestRunWins ==
    (Live /\ 0 \notin cy.runs) => (cy.runs = {} /\ cy.positions = 0)

C17_Witness ==
    /\ last.op = "reset"
    /\ last.arg = "animating"
    /\ Live
    /\ cy.runs = {}
    /\ cy.positions = 0

\* the events the handlers registered on an instance (lines 205-242) serve
InstanceEvents == {"tapNode", "tapBackground", "mouseover", "mouseout"}

\* C18: every instance an effect has left behind, on an input change or on
\* unmount, was destroyed before the next was created, so that at most the
\* instance cyRef points to is live; and once an instance is destroyed none
\* of its handlers runs, none of its layout runs animates or moves a node,
\* and onNodeClick is not called.
C18_DestroyedBeforeReplaced ==
    /\ [](\A d \in retired : d)
    /\ [](cy.destroyed => cy.runs = {})
    /\ [][ cy.destroyed =>
              /\ last'.op \notin InstanceEvents
              /\ last'.emitted = <<>>
              /\ cy'.destroyed => cy'.positions = cy.positions ]_vars

C18_Witness ==
    /\ retired = {TRUE}
    /\ ~mounted
    /\ cy.destroyed
    /\ selectedNode # Null
    /\ last.op = "unmount"

\* the elements on screen: those of the instance while it is live
Rendered ==
    IF Live THEN [nodes |-> cy.nodes, edges |-> cy.edges]
    ELSE [nodes |-> {}, edges |-> {}]

\* C19: after the input arrays were replaced, the elements on screen are
\* exactly the well-formed nodes and edges of the new input, and none of
\* them is highlighted or faded.
C19_RebuildShowsExactlyTheInput ==
    last.op = "render" =>
        /\ { el.data : el \in Rendered.nodes } = WellFormedNodes
        /\ Rendered.edges = WellFormedEdges
        /\ Live => (cy.highlighted = {} /\ cy.faded = {})

\* the five node types, lower-cased
TypeClasses == {"user", "project", "skill", "organization", "education"}

\* C20: after the input was given, every input node whose type is one of
\* the five types in some letter case has exactly one element on screen,
\* with the node's data map and the lower-cased type as its one class, and
\* every input edge between two nodes of the input has one element with the
\* edge's data map.
C20_AdapterKeepsTypeAndData ==
    last.op = "render" =>
        /\ \A n \in nodes : ToLowerCase(n.type) \in TypeClasses =>
               { el \in Rendered.nodes : el.data.id = n.id }
                   = { [data |-> n, classes |-> ToLowerCase(n.type)] }
        /\ \A e \in edges :
               (\E n \in nodes : n.id = e.source) /\ (\E n \in nodes : n.id = e.target)
                   => { x \in Rendered.edges : x.id = e.id } = {e}

\* C21: a reset of a rendered graph, with or without a selection, empties the
\* highlighted and the faded set, sets selectedNode to null and starts
\* exactly one layout run, which is the youngest and starts from a random
\* placement; it calls no listener and leaves the elements as they were.
C21_ResetClearsAndRunsOneLayout ==
    [][ (last'.op = "reset" /\ Live) =>
          /\ RenderState' = Idle
          /\ last'.layouts = 1
          /\ Cardinality(last'.options) = 1
          /\ \A o \in last'.options : o.randomize
          /\ cy'.runs = {Aged(a) : a \in cy.runs} \cup {0}
          /\ last'.emitted = <<>>
          /\ cy'.nodes = cy.nodes
          /\ cy'.edges = cy.edges ]_vars

C21_Witness ==
    /\ last.op = "reset"
    /\ last.from # ""
    /\ last.acted
    /\ Live
    /\ onNodeClick = "ok"
    /\ 0 \in cy.runs
    /\ RenderState = Idle

\* C22: a tap on an edge leaves selectedNode, the highlighted set and the
\* faded set as they were, with and without a selection, and calls no
\* listener.
C22_EdgeTapChangesNothing ==
    [][ last'.op = "tapEdge" =>
          /\ RenderState' = RenderState
          /\ last'.emitted = <<>> ]_vars

C22_Witness ==
    /\ last.op = "tapEdge"
    /\ last.from # ""
    /\ selectedNode # Null
    /\ cy.highlighted # {}
    /\ cy.faded # {}
    /\ onNodeClick = "ok"

\* C25: the layout run a reset starts works with the options of the initial
\* layout run (node repulsion 8000, ideal edge length 100, edge elasticity
\* 0.45, gravity 0.25, 2500 iterations, tiling, random start).
C25_ResetRunsTheInitialLayout ==
    (last.op = "reset" /\ last.layouts = 1) =>
        last.options = {WithDefaults(InitialLayout)}

\* C23: when the tap handler of node n has finished, by returning or by a
\* throw of the listener, either selectedNode, the highlighted set and the
\* faded set are all those of a selection of n, or all three are as they
\* were before the tap.
C23_TapIsAtomic ==
    [][ (last'.op = "tapNode" /\ last'.acted) =>
          LET full == Highlight(RemoveClasses(cy), last'.arg)
          IN  \/ /\ selectedNode' = Some(DataOf(cy, last'.arg))
                 /\ cy'.highlighted = full.highlighted
                 /\ cy'.faded = full.faded
              \/ RenderState' = RenderState ]_vars

\* C24: while the component is shown, selectedNode is null or the data of a
\* node of the graph that is currently rendered.
C24_SelectionIsARenderedNode ==
    (mounted /\ ~crashed /\ selectedNode # Null) =>
        /\ Live
        /\ selectedNode[1] \in { el.data : el \in cy.nodes }

\* C26: in every state of the provider, a user that is not null implies a
\* token in storage.
C26_UserImpliesStoredToken ==
    user # Null => crux_token # "none"

\* C27: after a logout user stays null until a login or signup that follows
\* it has returned, also when the answer to a getMe request sent before the
\* logout arrives after it.
C27_LoggedOutUntilNextLogin ==
    loggedOut => user = Null

\* C28: a login or signup that ends with a rejection, of the credential
\* request or of the getMe request after it, leaves user and the stored
\* token as they were when it was called (nothing else having written them
\* in between).
C28_FailedLoginChangesNothing ==
    (authLast.op \in {"login", "signup"} /\ authLast.outcome = "rejected" /\ authLast.quiet) =>
        /\ user = authLast.before.user
        /\ crux_token = authLast.before.token

\* C29: a close callback takes off the screen only the toast that scheduled
\* it, never a toast shown after that one.
C29_CloseRemovesOwnToastOnly ==
    (toastLast.op = "onClose" /\ toastLast.removed # 0) =>
        toastLast.removed = toastLast.id

\* C30: whenever the syncing flag is set it is cleared again later, every
\* backend request settling.
C30_SyncingIsCleared ==
    syncing ~> ~syncing

====
